---- MODULE Spec2Model ----
(***************************************************************************)
(* company_address_extractor.py: one run of the entry point (read the      *)
(* configuration, fetch once, write the report) and, separately, one call  *)
(* of format_and_save_addresses on an arbitrary parsed response.           *)
(*                                                                         *)
(* Strings that the code inspects character by character (location, the    *)
(* SIC code input, file names) are sequences of one-character strings.     *)
(* Strings that the code only tests for emptiness and prints (names and    *)
(* address fields) are TLA+ strings.                                       *)
(***************************************************************************)
EXTENDS Integers, Sequences, FiniteSets, TLC

VARIABLES
    pc,                    \* position of the run
    raw_api_key_from_env,  \* os.getenv("API_KEY")
    location_input,        \* os.getenv("LOCATION")
    sic_codes_input_str,   \* os.getenv("SIC_CODES")
    sic_codes_list_input,  \* the parsed code list
    requests,              \* HTTP requests issued so far
    fetch_outcome,         \* what requests.get / raise_for_status / json() did
    company_api_data,      \* value returned by fetch_company_data ("data" in the writer)
    writer_calls,          \* number of calls of format_and_save_addresses
    output_filename,       \* local of format_and_save_addresses
    branch,                \* which of the three with-blocks the writer is in
    idx,                   \* number of items the for loop has examined
    output_lines,          \* local of format_and_save_addresses
    skipped_count,         \* local of format_and_save_addresses
    processed_count,       \* local of format_and_save_addresses
    fs,                    \* the working directory: file name -> content
    stdout,                \* diagnostics printed so far
    uncaught               \* exception that escaped the run, or "none"

vars == <<pc, raw_api_key_from_env, location_input, sic_codes_input_str,
          sic_codes_list_input, requests, fetch_outcome, company_api_data,
          writer_calls, output_filename, branch, idx, output_lines,
          skipped_count, processed_count, fs, stdout, uncaught>>

----------------------------------------------------------------------------
(* Bounds of the model *)

MaxLen == 3          \* longest SIC_CODES input string
MaxFetchItems == 1   \* most items in a body drawn by the fetch of a whole run
MaxItems == 2        \* most items in the response given to the writer alone
MaxHits == 3         \* largest integer "hits"

----------------------------------------------------------------------------
(* Values *)

\* Python None for an environment variable that is not set
None == <<"None">>
\* a key that a dict does not have
Absent == "<absent>"

Whitespace == {" "}
Alnum == {"2", "6", "L", "k"}

\* str.isalnum() of one character
IsAlnum(c) == c \in Alnum

\* bool(s) of an Optional[str]
TruthyStr(s) == s # None /\ s # <<>>

\* bool(v) of a dict value that is a string or missing after .get(key, "")
Truthy(v) == v # "" /\ v # Absent

----------------------------------------------------------------------------
(* String helpers, computed as Python computes them *)

\* str.split(','): the comma-free pieces, an empty piece between two commas
RECURSIVE Split(_)
Split(s) ==
    IF s = <<>> THEN << <<>> >>
    ELSE LET rest == Split(Tail(s)) IN
         IF Head(s) = "," THEN << <<>> >> \o rest
         ELSE << <<Head(s)>> \o Head(rest) >> \o Tail(rest)

RECURSIVE LStrip(_)
LStrip(s) ==
    IF s # <<>> /\ Head(s) \in Whitespace THEN LStrip(Tail(s)) ELSE s

RECURSIVE RStrip(_)
RStrip(s) ==
    IF s # <<>> /\ s[Len(s)] \in Whitespace THEN RStrip(SubSeq(s, 1, Len(s) - 1)) ELSE s

\* str.strip()
Strip(s) == RStrip(LStrip(s))

\* [code.strip() for code in pieces if code.strip()]
RECURSIVE StripAndFilter(_)
StripAndFilter(pieces) ==
    IF pieces = <<>> THEN <<>>
    ELSE LET code == Strip(Head(pieces)) IN
         IF code # <<>> THEN <<code>> \o StripAndFilter(Tail(pieces))
         ELSE StripAndFilter(Tail(pieces))

\* the comprehension with the test kept and the strip of the element lost
ParseSicCodes_Unstripped(s) == SelectSeq(Split(s), LAMBDA code : Strip(code) # <<>>)

\* the list comprehension of the entry point
ParseSicCodes(s) == StripAndFilter(Split(s))

\* sep.join(list)
RECURSIVE JoinWith(_, _)
JoinWith(list, sep) ==
    IF list = <<>> THEN <<>>
    ELSE IF Len(list) = 1 THEN Head(list)
    ELSE Head(list) \o sep \o JoinWith(Tail(list), sep)

\* "".join(c if c.isalnum() else "_" for c in s)
RECURSIVE Sanitize(_)
Sanitize(s) ==
    IF s = <<>> THEN <<>>
    ELSE <<IF IsAlnum(Head(s)) THEN Head(s) ELSE "_">> \o Sanitize(Tail(s))

\* f"{safe_location}_{safe_sic_code}.txt"
OutputFilename(location, sic_codes_list) ==
    Sanitize(location) \o <<"_">> \o Sanitize(sic_codes_list[1]) \o <<".", "t", "x", "t">>

----------------------------------------------------------------------------
(* Parsed response bodies *)

\* one element of data["items"]
Item(name, akind, l1, l2, loc, post) ==
    [is_mapping |-> TRUE, company_name |-> name, addr_kind |-> akind,
     address_line_1 |-> l1, address_line_2 |-> l2,
     locality |-> loc, postal_code |-> post]

\* an element of data["items"] that is not a mapping (a string, a number)
NonMappingItem ==
    [is_mapping |-> FALSE, company_name |-> Absent, addr_kind |-> "absent",
     address_line_1 |-> Absent, address_line_2 |-> Absent,
     locality |-> Absent, postal_code |-> Absent]

NameUniverse == {Absent, "", "N"}

\* shapes of the registered_office_address value: the key missing, null,
\* a dict (each field missing or a string), a value that is no dict
AddressUniverse ==
    { <<"absent", Absent, Absent, Absent, Absent>>,
      <<"null", Absent, Absent, Absent, Absent>>,
      <<"dict", Absent, Absent, Absent, Absent>>,
      <<"dict", Absent, "B", Absent, Absent>>,
      <<"dict", "", Absent, "", "">>,
      <<"dict", "A", Absent, "C", "D">>,
      <<"dict", "A", "B", "C", "D">>,
      <<"dict", Absent, "", Absent, "D">>,
      <<"other", Absent, Absent, Absent, Absent>> }

ItemUniverse ==
    { Item(n, a[1], a[2], a[3], a[4], a[5]) : n \in NameUniverse, a \in AddressUniverse }
    \cup {NonMappingItem}

\* the items of the bodies a whole run draws: one of each way through the loop body
FetchItemUniverse ==
    { Item("N", "null", Absent, Absent, Absent, Absent),
      Item("", "dict", "", "B", Absent, Absent),
      Item("N", "dict", "A", Absent, "C", "D"),
      Item(Absent, "dict", "A", "B", "C", "D"),
      NonMappingItem }

SeqsUpTo(S, n) == UNION { [1..k -> S] : k \in 0..n }

HitsUniverse ==
    { [kind |-> "absent", value |-> 0], [kind |-> "other", value |-> 0] }
    \cup { [kind |-> "int", value |-> h] : h \in 1..MaxHits }

\* the value of response.json(): JSON null, a truthy scalar, or an object
Body(kind, items_kind, items, hits) ==
    [kind |-> kind, items_kind |-> items_kind, items |-> items, hits |-> hits]

\* what fetch_company_data returns on failure; also what json() gives for "null"
NoData == Body("None", "absent", <<>>, [kind |-> "absent", value |-> 0])

ScalarBody == Body("scalar", "absent", <<>>, [kind |-> "absent", value |-> 0])

ObjectBodies(U, n) ==
    { Body("object", "absent", <<>>, h) : h \in HitsUniverse }
    \cup { Body("object", "list", its, h) : its \in SeqsUpTo(U, n), h \in HitsUniverse }

Bodies(U, n) == {NoData, ScalarBody} \cup ObjectBodies(U, n)

\* bool(data)
TruthyData(data) ==
    CASE data.kind = "None" -> FALSE
      [] data.kind = "scalar" -> TRUE
      [] OTHER -> data.items_kind # "absent" \/ data.hits.kind # "absent"

----------------------------------------------------------------------------
(* Files *)

\* one line of a report
Line(kind, text, location, codes, total, skipped) ==
    [kind |-> kind, text |-> text, location |-> location, codes |-> codes,
     total |-> total, skipped |-> skipped]

TextLine(t) == Line("text", t, <<>>, <<>>, 0, 0)

\* "No company data found for location '...' and SIC code(s) '...'."
NoDataLine(location, sic_codes_list) ==
    Line("no_company_data", "", location, JoinWith(sic_codes_list, <<",", " ">>), 0, 0)

\* "No companies with complete address data found for location '...' and SIC code(s) '...'."
NoCompleteLine(location, sic_codes_list) ==
    Line("no_complete_address", "", location, JoinWith(sic_codes_list, <<",", " ">>), 0, 0)

\* "Total records received: ..., Total skipped: ..."
TotalsLine(total, skipped) == Line("totals", "", <<>>, <<>>, total, skipped)

\* a file: its lines, and whether the last one ends in a newline
File(lines, eof_newline) == [lines |-> lines, eof_newline |-> eof_newline]

\* what open(name, "w") leaves before anything is written
TruncatedFile == File(<<>>, FALSE)

\* the report a previous run left
OldFile == File(<<TextLine("old"), TextLine("----")>>, FALSE)

NoFiles == <<>>

\* "\n".join(output_lines)
JoinedLines(lines) == File(lines, FALSE)

\* the text each with-block writes
ContentFor(br, data, location, sic_codes_list, lines, skipped) ==
    CASE br = "no_data" -> File(<<NoDataLine(location, sic_codes_list)>>, TRUE)
      [] br = "all_skipped" ->
            File(<<NoCompleteLine(location, sic_codes_list),
                   TotalsLine(Len(data.items), skipped)>>, TRUE)
      [] OTHER -> JoinedLines(lines)

\* what a failing f.write or close can leave in the opened file: nothing, all
\* but the last line, or all of the text (the error raised by the close)
PartialFiles(content) ==
    { File(SubSeq(content.lines, 1, k), k > 0 /\ (k < Len(content.lines) \/ content.eof_newline)) :
        k \in {0, Len(content.lines) - 1, Len(content.lines)} }

----------------------------------------------------------------------------
(* Per-item logic of the for loop *)

\* `if not address_info`
AddressFalsy(company) ==
    \/ company.addr_kind \in {"absent", "null"}
    \/ /\ company.addr_kind = "dict"
       /\ company.address_line_1 = Absent /\ company.address_line_2 = Absent
       /\ company.locality = Absent /\ company.postal_code = Absent

\* dict.get(key, default)
Get(v, default) == IF v = Absent THEN default ELSE v

\* company.get("company_name", "N/A")
CompanyName(company) == Get(company.company_name, "N/A")

\* address_info.get(field, ""), after a non-dict address_info became {}
AddressField(company, v) == IF company.addr_kind = "dict" THEN Get(v, "") ELSE ""

\* the test with `and not address_line_2` added
EssentialsBlank_WithLine2(company) ==
    /\ ~Truthy(CompanyName(company))
    /\ ~Truthy(AddressField(company, company.address_line_1))
    /\ ~Truthy(AddressField(company, company.address_line_2))
    /\ ~Truthy(AddressField(company, company.locality))
    /\ ~Truthy(AddressField(company, company.postal_code))

\* `if not company_name and not address_line_1 and not locality and not postal_code`
EssentialsBlank(company) ==
    /\ ~Truthy(CompanyName(company))
    /\ ~Truthy(AddressField(company, company.address_line_1))
    /\ ~Truthy(AddressField(company, company.locality))
    /\ ~Truthy(AddressField(company, company.postal_code))

\* the block with address line 2 appended whether it is empty or not
BlockOf_BlankLine2(company) ==
    <<TextLine(CompanyName(company)),
      TextLine(AddressField(company, company.address_line_1)),
      TextLine(AddressField(company, company.address_line_2)),
      TextLine(AddressField(company, company.locality)),
      TextLine(AddressField(company, company.postal_code)),
      TextLine("----")>>

\* the block with the separator only after a block that has an address line 2
BlockOf_SeparatorLost(company) ==
    <<TextLine(CompanyName(company)),
      TextLine(AddressField(company, company.address_line_1))>>
    \o (IF Truthy(AddressField(company, company.address_line_2))
        THEN <<TextLine(AddressField(company, company.address_line_2))>> ELSE <<>>)
    \o <<TextLine(AddressField(company, company.locality)),
         TextLine(AddressField(company, company.postal_code))>>
    \o (IF Truthy(AddressField(company, company.address_line_2))
        THEN <<TextLine("----")>> ELSE <<>>)

\* the lines appended for one company that is not skipped
BlockOf(company) ==
    <<TextLine(CompanyName(company)),
      TextLine(AddressField(company, company.address_line_1))>>
    \o (IF Truthy(AddressField(company, company.address_line_2))
        THEN <<TextLine(AddressField(company, company.address_line_2))>> ELSE <<>>)
    \o <<TextLine(AddressField(company, company.locality)),
         TextLine(AddressField(company, company.postal_code)),
         TextLine("----")>>

----------------------------------------------------------------------------
(* Initial states *)

KeyUniverse == {None, <<>>, <<"k">>}
LocationUniverse == {None, <<>>, <<"L", "!">>}
SicAlphabet == {"2", "6", ",", " "}
SicInputUniverse == {None} \cup SeqsUpTo(SicAlphabet, MaxLen)

\* the name a previous run with the same configuration wrote to
PreviousName(location, sic) ==
    IF TruthyStr(location) /\ TruthyStr(sic) /\ ParseSicCodes(sic) # <<>>
    THEN OutputFilename(location, ParseSicCodes(sic))
    ELSE <<"o", "l", "d", ".", "t", "x", "t">>

Request(location, sic_codes_list) ==
    [location |-> location, sic_codes_list |-> sic_codes_list,
     sic_codes_query_param |-> JoinWith(sic_codes_list, <<",">>)]

\* the state in which the entry point starts, load_dotenv() done
Init ==
    /\ pc = "main"
    /\ raw_api_key_from_env \in KeyUniverse
    /\ location_input \in LocationUniverse
    /\ sic_codes_input_str \in SicInputUniverse
    /\ sic_codes_list_input = <<>>
    /\ requests = <<>>
    /\ fetch_outcome = "none"
    /\ company_api_data = NoData
    /\ writer_calls = 0
    /\ output_filename = <<>>
    /\ branch = "none"
    /\ idx = 0
    /\ output_lines = <<>>
    /\ skipped_count = 0
    /\ processed_count = 0
    /\ fs \in {NoFiles, PreviousName(location_input, sic_codes_input_str) :> OldFile}
    /\ stdout = <<>>
    /\ uncaught = "none"

\* the state in which format_and_save_addresses is entered with a truthy response
InitWriter ==
    /\ pc = "writer"
    /\ raw_api_key_from_env = <<"k">>
    /\ location_input = <<"L", "!">>
    /\ sic_codes_input_str = <<"6", ",", " ", "6", "6">>
    /\ sic_codes_list_input = ParseSicCodes(sic_codes_input_str)
    /\ requests = <<Request(location_input, sic_codes_list_input)>>
    /\ fetch_outcome = "ok"
    /\ company_api_data \in {b \in Bodies(ItemUniverse, MaxItems) : TruthyData(b)}
    /\ writer_calls = 1
    /\ output_filename = <<>>
    /\ branch = "none"
    /\ idx = 0
    /\ output_lines = <<>>
    /\ skipped_count = 0
    /\ processed_count = 0
    /\ fs \in {NoFiles, PreviousName(location_input, sic_codes_input_str) :> OldFile}
    /\ stdout = <<"requesting_url">>
    /\ uncaught = "none"

----------------------------------------------------------------------------
(* The entry point *)

\* the chain of checks on the three environment variables
ConfigError(key, location, sic) ==
    IF ~TruthyStr(key) THEN "api_key_not_found"
    ELSE IF ~TruthyStr(location) THEN "location_empty"
    ELSE IF ~TruthyStr(sic) THEN "sic_codes_empty"
    ELSE IF ParseSicCodes(sic) = <<>> THEN "sic_codes_empty_after_stripping"
    ELSE "none"

MainValidate ==
    /\ pc = "main"
    /\ LET err == ConfigError(raw_api_key_from_env, location_input, sic_codes_input_str) IN
       IF err # "none"
       THEN /\ stdout' = Append(stdout, err)
            /\ pc' = IF err \in {"location_empty", "sic_codes_empty"} THEN "exit" ELSE "done"
            /\ UNCHANGED sic_codes_list_input
       ELSE /\ sic_codes_list_input' = ParseSicCodes(sic_codes_input_str)
            /\ pc' = "fetch"
            /\ UNCHANGED stdout
    /\ UNCHANGED <<raw_api_key_from_env, location_input, sic_codes_input_str, requests,
                   fetch_outcome, company_api_data, writer_calls, output_filename, branch,
                   idx, output_lines, skipped_count, processed_count, fs, uncaught>>

FetchFailures == {"http_error", "timeout", "connection_error", "request_error", "json_error"}

\* what fetch_company_data returns for an outcome of the request
FetchResult(outcome, body) == IF outcome = "ok" THEN body ELSE NoData

FetchReturns(outcome, body) ==
    /\ requests' = Append(requests, Request(location_input, sic_codes_list_input))
    /\ fetch_outcome' = outcome
    /\ company_api_data' = FetchResult(outcome, body)
    /\ stdout' = stdout \o <<"requesting_url">>
                        \o (IF outcome = "ok" THEN <<>> ELSE <<outcome>>)
    /\ pc' = "dispatch"
    /\ UNCHANGED <<raw_api_key_from_env, location_input, sic_codes_input_str,
                   sic_codes_list_input, writer_calls, output_filename, branch, idx,
                   output_lines, skipped_count, processed_count, fs, uncaught>>

\* requests.get, raise_for_status and json() all succeed
FetchSucceeds ==
    /\ pc = "fetch"
    /\ \E body \in Bodies(FetchItemUniverse, MaxFetchItems) : FetchReturns("ok", body)

\* one of the except clauses runs and the function falls through to `return None`
FetchFails ==
    /\ pc = "fetch"
    /\ \E outcome \in FetchFailures : FetchReturns(outcome, NoData)

\* the writer called whatever the fetch returned
ShouldCallWriter_Always(data) == TRUE

\* `if company_api_data:`
ShouldCallWriter(data) == TruthyData(data)

CallWriter ==
    /\ pc = "dispatch"
    /\ ShouldCallWriter(company_api_data)
    /\ writer_calls' = writer_calls + 1
    /\ pc' = "writer"
    /\ UNCHANGED <<raw_api_key_from_env, location_input, sic_codes_input_str,
                   sic_codes_list_input, requests, fetch_outcome, company_api_data,
                   output_filename, branch, idx, output_lines, skipped_count,
                   processed_count, fs, stdout, uncaught>>

ReportNoData ==
    /\ pc = "dispatch"
    /\ ~ShouldCallWriter(company_api_data)
    /\ stdout' = Append(stdout, "could_not_retrieve")
    /\ pc' = "done"
    /\ UNCHANGED <<raw_api_key_from_env, location_input, sic_codes_input_str,
                   sic_codes_list_input, requests, fetch_outcome, company_api_data,
                   writer_calls, output_filename, branch, idx, output_lines,
                   skipped_count, processed_count, fs, uncaught>>

----------------------------------------------------------------------------
(* format_and_save_addresses *)

configVars == <<raw_api_key_from_env, location_input, sic_codes_input_str,
                sic_codes_list_input, requests, fetch_outcome, company_api_data,
                writer_calls>>

\* `not data or "items" not in data or not data["items"]`, for a data that is
\* None or an object
NoItems(data) ==
    \/ ~TruthyData(data)
    \/ data.items_kind = "absent"
    \/ data.items = <<>>

\* from the entry of the function to the first with-block or the for loop
WriterEnter ==
    /\ pc = "writer"
    /\ IF sic_codes_list_input = <<>>
       THEN /\ stdout' = Append(stdout, "sic_codes_list_empty")
            /\ pc' = "done"
            /\ UNCHANGED <<output_filename, branch, uncaught>>
       ELSE /\ output_filename' = OutputFilename(location_input, sic_codes_list_input)
            /\ IF company_api_data.kind = "scalar"
               THEN \* `"items" not in data` on a value that is no container
                    /\ uncaught' = "TypeError"
                    /\ pc' = "crashed"
                    /\ UNCHANGED <<branch, stdout>>
               ELSE IF NoItems(company_api_data)
               THEN /\ stdout' = Append(stdout, "no_company_items_found")
                    /\ branch' = "no_data"
                    /\ pc' = "open"
                    /\ UNCHANGED uncaught
               ELSE /\ pc' = "loop"
                    /\ UNCHANGED <<branch, stdout, uncaught>>
    /\ idx' = 0
    /\ output_lines' = <<>>
    /\ skipped_count' = 0
    /\ processed_count' = 0
    /\ UNCHANGED <<configVars, fs>>

\* whether the loop body leaves the company out
Skips(company) == AddressFalsy(company) \/ EssentialsBlank(company)

\* one iteration of `for company in data["items"]`
LoopStep ==
    /\ pc = "loop"
    /\ idx < Len(company_api_data.items)
    /\ LET company == company_api_data.items[idx + 1] IN
       IF ~company.is_mapping
       THEN \* company.get on a value that has no get
            /\ uncaught' = "AttributeError"
            /\ pc' = "crashed"
            /\ UNCHANGED <<idx, output_lines, skipped_count, processed_count>>
       ELSE /\ idx' = idx + 1
            /\ IF Skips(company)
               THEN /\ skipped_count' = skipped_count + 1
                    /\ UNCHANGED <<output_lines, processed_count>>
               ELSE /\ output_lines' = output_lines \o BlockOf(company)
                    /\ processed_count' = processed_count + 1
                    /\ UNCHANGED skipped_count
            /\ UNCHANGED <<pc, uncaught>>
    /\ UNCHANGED <<configVars, output_filename, branch, fs, stdout>>

\* the all-skipped branch never taken
AllSkipped_Never(lines, processed) == FALSE

\* `if not output_lines and processed_count == 0`
AllSkipped(lines, processed) == lines = <<>> /\ processed = 0

\* the loop is over: choose the with-block
LoopExit ==
    /\ pc = "loop"
    /\ idx = Len(company_api_data.items)
    /\ IF AllSkipped(output_lines, processed_count)
       THEN /\ stdout' = Append(stdout, "all_records_skipped")
            /\ branch' = "all_skipped"
       ELSE /\ branch' = "addresses"
            /\ UNCHANGED stdout
    /\ pc' = "open"
    /\ UNCHANGED <<configVars, output_filename, idx, output_lines, skipped_count,
                   processed_count, fs, uncaught>>

\* the file opened without truncation (mode "a" or "r+")
Opened_KeepsContent(files, name) ==
    IF name \in DOMAIN files THEN files ELSE (name :> TruncatedFile) @@ files

\* the file system after open(output_filename, "w") succeeded
Opened(files, name) == (name :> TruncatedFile) @@ files

\* open(output_filename, "w") succeeds: the file is created or truncated
OpenFile ==
    /\ pc = "open"
    /\ fs' = Opened(fs, output_filename)
    /\ pc' = "write"
    /\ UNCHANGED <<configVars, output_filename, branch, idx, output_lines,
                   skipped_count, processed_count, stdout, uncaught>>

\* open raises IOError: the except clause prints and the function returns
OpenFileFails ==
    /\ pc = "open"
    /\ stdout' = Append(stdout, "error_writing_to_file")
    /\ pc' = "done"
    /\ UNCHANGED <<configVars, output_filename, branch, idx, output_lines,
                   skipped_count, processed_count, fs, uncaught>>

\* the message printed right after a with-block
WrittenMessage(br) ==
    CASE br = "no_data" -> "created_with_no_data_message"
      [] br = "all_skipped" -> "created_indicating_all_skipped"
      [] OTHER -> "addresses_successfully_written"

\* f.write(...) and the close at the end of the with-block succeed
WriteFile ==
    /\ pc = "write"
    /\ fs' = (output_filename :>
                ContentFor(branch, company_api_data, location_input,
                           sic_codes_list_input, output_lines, skipped_count)) @@ fs
    /\ stdout' = Append(stdout, WrittenMessage(branch))
    /\ pc' = IF branch = "addresses" THEN "report" ELSE "done"
    /\ UNCHANGED <<configVars, output_filename, branch, idx, output_lines,
                   skipped_count, processed_count, uncaught>>

\* f.write(...) or the close raises IOError after the file was opened
WriteFileFails ==
    /\ pc = "write"
    /\ \E left \in PartialFiles(ContentFor(branch, company_api_data, location_input,
                                           sic_codes_list_input, output_lines,
                                           skipped_count)) :
           fs' = (output_filename :> left) @@ fs
    /\ stdout' = Append(stdout, "error_writing_to_file")
    /\ pc' = "done"
    /\ UNCHANGED <<configVars, output_filename, branch, idx, output_lines,
                   skipped_count, processed_count, uncaught>>

\* data.get('hits', 'N/A')
ApiHits(data) ==
    IF data.hits.kind = "absent" THEN [kind |-> "str", value |-> 0] ELSE data.hits

\* `total_items_from_api_page < api_hits` raises TypeError unless api_hits is a number
ComparisonRaises(api_hits) == api_hits.kind # "int"

\* the comparison written with <=
PartialPage_OrEqual(total_items_from_api_page, api_hits) ==
    total_items_from_api_page <= api_hits.value

\* `if total_items_from_api_page < api_hits`
PartialPage(total_items_from_api_page, api_hits) ==
    total_items_from_api_page < api_hits.value

\* the diagnostics after the addresses were written
ReportCounts ==
    /\ pc = "report"
    /\ LET api_hits == ApiHits(company_api_data)
           total_items_from_api_page == Len(company_api_data.items)
           counts == <<"total_processed">>
                     \o (IF skipped_count > 0 THEN <<"total_skipped">> ELSE <<>>)
                     \o <<"total_hits">>
       IN IF ComparisonRaises(api_hits)
          THEN /\ stdout' = stdout \o counts
               /\ uncaught' = "TypeError"
               /\ pc' = "crashed"
          ELSE /\ stdout' = stdout \o counts
                     \o (IF PartialPage(total_items_from_api_page, api_hits)
                         THEN <<"partial_results_note">> ELSE <<>>)
               /\ pc' = "done"
               /\ UNCHANGED uncaught
    /\ UNCHANGED <<configVars, output_filename, branch, idx, output_lines,
                   skipped_count, processed_count, fs>>

----------------------------------------------------------------------------
(* Specifications *)

NextWriter ==
    \/ WriterEnter
    \/ LoopStep
    \/ LoopExit
    \/ OpenFile
    \/ OpenFileFails
    \/ WriteFile
    \/ WriteFileFails
    \/ ReportCounts

Next ==
    \/ MainValidate
    \/ FetchSucceeds
    \/ FetchFails
    \/ CallWriter
    \/ ReportNoData
    \/ NextWriter

\* a whole run of the entry point
Spec == Init /\ [][Next]_vars

\* one call of format_and_save_addresses
SpecWriter == InitWriter /\ [][NextWriter]_vars

\* one call of format_and_save_addresses over the report of an earlier run
InitOverwrite == InitWriter /\ fs # NoFiles
SpecOverwrite == InitOverwrite /\ [][NextWriter]_vars

----------------------------------------------------------------------------
(* Vocabulary of the properties, stated on the inputs and the outputs *)

Min(S) == CHOOSE x \in S : \A y \in S : x <= y
Max(S) == CHOOSE x \in S : \A y \in S : x >= y

\* the entries of a comma-separated string that are non-empty once the blanks
\* around them are removed, in the order of the string
RECURSIVE EntriesAfter(_, _)
EntriesAfter(s, p) ==
    IF p > Len(s) THEN <<>>
    ELSE LET q == Min({i \in (p + 1)..Len(s) : s[i] = ","} \cup {Len(s) + 1})
             inner == {i \in (p + 1)..(q - 1) : s[i] # " "}
         IN (IF inner = {} THEN <<>> ELSE <<SubSeq(s, Min(inner), Max(inner))>>)
            \o EntriesAfter(s, q)

TrimmedEntries(s) == EntriesAfter(s, 0)

ConfigIsValid ==
    /\ raw_api_key_from_env \notin {None, <<>>}
    /\ location_input \notin {None, <<>>}
    /\ sic_codes_input_str # None
    /\ TrimmedEntries(sic_codes_input_str) # <<>>

Underscored(s) == [i \in 1..Len(s) |-> IF s[i] \in Alnum THEN s[i] ELSE "_"]

\* <safe_location>_<safe_first_code>.txt
ReportName ==
    Underscored(location_input) \o <<"_">>
    \o Underscored(TrimmedEntries(sic_codes_input_str)[1]) \o <<".", "t", "x", "t">>

Ended == pc \in {"done", "exit", "crashed"}

Printed(msg) == \E i \in 1..Len(stdout) : stdout[i] = msg

WriteFailureReported == Printed("error_writing_to_file")

\* a with-block of the writer ran to its end
WroteFile ==
    \/ Printed("created_with_no_data_message")
    \/ Printed("created_indicating_all_skipped")
    \/ Printed("addresses_successfully_written")

HasItems == company_api_data.items_kind = "list" /\ company_api_data.items # <<>>

Items == company_api_data.items

AllMappings == \A i \in 1..Len(Items) : Items[i].is_mapping

\* the address is a mapping with at least one key
AddressPresent(item) ==
    /\ item.addr_kind = "dict"
    /\ \E v \in {item.address_line_1, item.address_line_2, item.locality,
                 item.postal_code} : v # Absent

Blank(v) == v \in {Absent, ""}

\* the item is left out of the report
Unusable(item) ==
    \/ ~item.is_mapping
    \/ item.addr_kind \in {"absent", "null"}
    \/ item.addr_kind = "dict" /\ ~AddressPresent(item)
    \/ /\ item.company_name = ""
       /\ item.addr_kind = "other" \/ (Blank(item.address_line_1)
                                        /\ Blank(item.locality) /\ Blank(item.postal_code))

UsableIndexes == {i \in 1..Len(Items) : ~Unusable(Items[i])}

Shown(v) == IF v = Absent \/ v = "" THEN "" ELSE v

\* the block of a usable item: name, line 1, line 2 if any, locality, postal code, ----
ExpectedBlock(item) ==
    LET a == IF item.addr_kind = "dict"
             THEN <<Shown(item.address_line_1), Shown(item.address_line_2),
                    Shown(item.locality), Shown(item.postal_code)>>
             ELSE <<"", "", "", "">>
    IN <<TextLine(IF item.company_name = Absent THEN "N/A" ELSE item.company_name),
         TextLine(a[1])>>
       \o (IF a[2] = "" THEN <<>> ELSE <<TextLine(a[2])>>)
       \o <<TextLine(a[3]), TextLine(a[4]), TextLine("----")>>

RECURSIVE ExpectedLines(_)
ExpectedLines(items) ==
    IF items = <<>> THEN <<>>
    ELSE (IF Unusable(Head(items)) THEN <<>> ELSE ExpectedBlock(Head(items)))
         \o ExpectedLines(Tail(items))

CountOf(lines, line) == Cardinality({i \in 1..Len(lines) : lines[i] = line})

WithLine2Indexes ==
    {i \in UsableIndexes : Items[i].addr_kind = "dict" /\ ~Blank(Items[i].address_line_2)}

NoteEmitted == Printed("partial_results_note")

----------------------------------------------------------------------------
(* Properties *)

\* C1: when a run with a valid configuration ends after a successful fetch
\* (a parsed JSON object, whatever its fields, none at all included) and
\* without a file-write error, the report file
\* <safe_location>_<safe_first_code>.txt exists, and when no company has a
\* usable address it holds an explanatory message, not address records.
C1_ReportExistsAfterSuccessfulRun ==
    (Ended /\ ConfigIsValid /\ fetch_outcome = "ok" /\ ~WriteFailureReported
     /\ company_api_data.kind = "object")
    => /\ ReportName \in DOMAIN fs
       /\ UsableIndexes = {}
          => /\ fs[ReportName].lines # <<>>
             /\ fs[ReportName].lines[1].kind \in {"no_company_data", "no_complete_address"}

\* C2: once the fetch has failed (HTTP status, timeout, connection, other
\* request failure, unparseable body) the function has returned the failure
\* signal without an error escaping, the writer is never called, and no step
\* creates, truncates or modifies a file.
C2_FetchFailureWritesNothing ==
    [][fetch_outcome' \in FetchFailures
       => /\ company_api_data' = NoData
          /\ uncaught' = "none"
          /\ writer_calls' = 0
          /\ pc' \in {"dispatch", "done"}
          /\ fs' = fs]_vars

C2_Witness ==
    /\ fetch_outcome = "timeout"
    /\ pc = "done"
    /\ writer_calls = 0
    /\ fs # NoFiles
    /\ fs[ReportName] = OldFile

\* C3: a step issues a request or changes a file only if the credential is
\* present and non-empty, the location is non-empty and the code input has an
\* entry that is non-empty after trimming; the code list of every request is
\* the trimmed non-empty entries of the input, in input order.
C3_NothingHappensWithoutConfiguration ==
    [][(requests' # requests \/ fs' # fs)
       => /\ ConfigIsValid
          /\ \A i \in 1..Len(requests') :
                /\ requests'[i].sic_codes_list = TrimmedEntries(sic_codes_input_str)
                /\ requests'[i].location = location_input]_vars

C3_Witness ==
    /\ Len(requests) = 1
    /\ requests[1].sic_codes_list = << <<"6">>, <<"2">> >>
    /\ pc = "done"
    /\ WroteFile

\* an item of the loop was examined by this step
Examined == pc = "loop" /\ idx' = idx + 1

ExaminedItem == Items[idx + 1]

SkippedByStep ==
    /\ skipped_count' = skipped_count + 1
    /\ processed_count' = processed_count
    /\ output_lines' = output_lines

\* C4 as stated: an item with a present, non-empty address is skipped exactly
\* when name, address line 1, locality and postal code are all empty strings,
\* a missing one (a missing name too) counting as the empty string.
C4_SkippedIffEssentialsEmpty ==
    [][(Examined /\ AddressPresent(ExaminedItem))
       => (SkippedByStep <=> /\ Blank(ExaminedItem.company_name)
                             /\ Blank(ExaminedItem.address_line_1)
                             /\ Blank(ExaminedItem.locality)
                             /\ Blank(ExaminedItem.postal_code))]_vars

\* C4 amended: an item with a present, non-empty address is skipped exactly
\* when its name is present and empty and address line 1, locality and postal
\* code are each missing or empty; a missing name stands as "N/A" and keeps
\* the item. Address line 2 has no part in the decision.
C4_SkippedIffNameEmptyAndAddressBlank ==
    [][(Examined /\ AddressPresent(ExaminedItem))
       => (SkippedByStep <=> /\ ExaminedItem.company_name = ""
                             /\ Blank(ExaminedItem.address_line_1)
                             /\ Blank(ExaminedItem.locality)
                             /\ Blank(ExaminedItem.postal_code))]_vars

C4_Witness ==
    /\ pc = "loop"
    /\ idx = 2
    /\ Items[1].company_name = "" /\ Items[1].address_line_2 = "B"
    /\ AddressPresent(Items[1]) /\ Blank(Items[1].address_line_1)
    /\ Items[2].company_name = Absent /\ Items[2].address_line_2 = "B"
    /\ AddressPresent(Items[2]) /\ Blank(Items[2].address_line_1)
    /\ Blank(Items[2].locality) /\ Blank(Items[2].postal_code)
    /\ skipped_count = 1
    /\ processed_count = 1

\* C5: when every item of a non-empty items sequence is skipped and the
\* writer writes the file, the file has no address block and no "----" line:
\* it is the message that no complete records were found, then the number of
\* items received and a skipped count equal to that number.
C5_AllSkippedReport ==
    (HasItems /\ UsableIndexes = {} /\ AllMappings /\ WroteFile)
    => /\ output_filename \in DOMAIN fs
       /\ fs[output_filename] =
            File(<<NoCompleteLine(location_input, sic_codes_list_input),
                   TotalsLine(Len(Items), Len(Items))>>, TRUE)
       /\ CountOf(fs[output_filename].lines, TextLine("----")) = 0
       /\ \A i \in 1..Len(fs[output_filename].lines) :
             fs[output_filename].lines[i].kind # "text"

C5_Witness ==
    /\ pc = "done"
    /\ WroteFile
    /\ Len(Items) = 2
    /\ Items[1].addr_kind = "null"
    /\ AddressPresent(Items[2]) /\ Unusable(Items[2])
    /\ fs[output_filename].lines[2] = TotalsLine(2, 2)

\* C6: when at least one item is processed, the file is the newline-joined
\* blocks of the processed items in the order of the items, nothing for the
\* skipped ones; a block is name, address line 1, address line 2 only if
\* non-empty, locality, postal code, "----": 5 lines an item, one more for
\* each with an address line 2.
C6_FileIsBlocksInOrder ==
    (HasItems /\ AllMappings /\ UsableIndexes # {} /\ WroteFile)
    => /\ output_filename \in DOMAIN fs
       /\ fs[output_filename] = File(ExpectedLines(Items), FALSE)
       /\ Len(fs[output_filename].lines)
            = 5 * Cardinality(UsableIndexes) + Cardinality(WithLine2Indexes)

C6_Witness ==
    /\ pc = "done"
    /\ WroteFile
    /\ Len(Items) = 2
    /\ UsableIndexes = {1, 2}
    /\ WithLine2Indexes = {2}
    /\ Items[1].address_line_2 = Absent
    /\ Len(fs[output_filename].lines) = 11

\* the writer wrote the file for a non-empty items sequence with an integer hits
WroteWithIntegerHits ==
    /\ pc = "done"
    /\ HasItems
    /\ WroteFile
    /\ company_api_data.hits.kind = "int"

\* C7 as stated: whenever the writer writes the file for a non-empty items
\* sequence and an integer hits, the partial-results note is emitted exactly
\* when the number of items is less than hits, the items processed or skipped.
C7_NoteIffFewerItemsThanHits ==
    WroteWithIntegerHits
    => (NoteEmitted <=> Len(Items) < company_api_data.hits.value)

\* C7 amended: when at least one item is processed, the note is emitted
\* exactly when the number of items (processed and skipped together) is less
\* than hits, and not when they are equal; when every item is skipped the
\* note is never emitted.
C7_NoteIffFewerItemsWhenSomeProcessed ==
    WroteWithIntegerHits
    => IF UsableIndexes # {}
       THEN NoteEmitted <=> Len(Items) < company_api_data.hits.value
       ELSE ~NoteEmitted

C7_Witness ==
    /\ WroteWithIntegerHits
    /\ Len(Items) = 2
    /\ skipped_count = 1
    /\ processed_count = 1
    /\ company_api_data.hits.value = 3
    /\ NoteEmitted

\* C8 as stated: when a file-write failure occurs, at the open or during the
\* write, it is reported, the function returns without raising, and the file
\* an earlier run left under the same name still holds its earlier content.
C8_FailedWriteKeepsEarlierReport ==
    WriteFailureReported
    => /\ pc = "done"
       /\ uncaught = "none"
       /\ fs[output_filename] = OldFile

\* the text the call is about to write
NewContent ==
    IF ~HasItems
    THEN File(<<NoDataLine(location_input, TrimmedEntries(sic_codes_input_str))>>, TRUE)
    ELSE IF UsableIndexes = {}
    THEN File(<<NoCompleteLine(location_input, TrimmedEntries(sic_codes_input_str)),
                TotalsLine(Len(Items), Len(Items))>>, TRUE)
    ELSE File(ExpectedLines(Items), FALSE)

IsPrefix(a, b) == Len(a) <= Len(b) /\ a = SubSeq(b, 1, Len(a))

\* this step reports a file-write failure
FailureStep == ~WriteFailureReported /\ WriteFailureReported'

\* C8 amended: a file-write failure is reported and the function returns
\* without raising; when the open itself fails, the file an earlier run left
\* still holds its earlier content; when the failure comes after the open,
\* the earlier content was already discarded by the open, and the file is
\* left empty or with the beginning (possibly all) of the new content.
C8_FailedWriteKeepsEarlierReportOnlyAtOpen ==
    [][FailureStep
       => /\ pc' = "done"
          /\ uncaught' = "none"
          /\ IF pc = "open"
             THEN fs' = fs /\ fs'[ReportName] = OldFile
             ELSE /\ fs[ReportName] = TruncatedFile
                  /\ fs'[ReportName] # OldFile
                  /\ IsPrefix(fs'[ReportName].lines, NewContent.lines)]_vars

C8_Witness ==
    /\ WriteFailureReported
    /\ pc = "done"
    /\ branch = "addresses"
    /\ Len(fs[ReportName].lines) = 5
    /\ Len(output_lines) = 6

\* C9: during the pass over the items, processed_count + skipped_count is the
\* number of items examined, each item raising exactly one of the two by one;
\* after the pass the sum is the number of items, and the number of "----"
\* lines accumulated is processed_count.
C9_CountersPartitionItems ==
    /\ [](/\ processed_count + skipped_count = idx
          /\ CountOf(output_lines, TextLine("----")) = processed_count
          /\ (HasItems /\ pc \in {"open", "write", "report", "done"})
             => processed_count + skipped_count = Len(Items))
    /\ [][Examined
          => \/ processed_count' = processed_count + 1 /\ skipped_count' = skipped_count
             \/ processed_count' = processed_count /\ skipped_count' = skipped_count + 1]_vars

C9_Witness ==
    /\ pc = "open"
    /\ branch = "addresses"
    /\ idx = 2
    /\ processed_count = 1
    /\ skipped_count = 1
    /\ CountOf(output_lines, TextLine("----")) = 1

\* C10: for a non-empty items sequence of mappings with at least one processed
\* item, the writer returns normally after writing the file, no error
\* escaping, also when the response has no hits or a hits that is no integer.
C10_WriterReturnsNormally ==
    (HasItems /\ AllMappings /\ UsableIndexes # {} /\ WroteFile /\ pc # "report")
    => pc = "done" /\ uncaught = "none"

====
